---------------------------- MODULE Spec2Model ----------------------------
(***************************************************************************)
(* LB-t: lattice-Boltzmann solver.  Three state machines share this        *)
(* module:                                                                 *)
(*   Spec        main(): argument dispatch, construction of the two        *)
(*               buffers, set-up and the time loop          (src/main.cpp) *)
(*   SpecStream  one even and one odd Load/collide/Store pass over a       *)
(*               periodic lattice   (population_indexing_avx.hpp)          *)
(*   SpecInit    InitContinuum's parallel block loop                       *)
(*               (continuum/initialisation.hpp)                            *)
(* Each specification fixes the variables of the other two.                *)
(***************************************************************************)
EXTENDS Integers, Sequences, FiniteSets, TLC

VARIABLES
    \* ---- main() ----------------------------------------------------------
    pc,          \* position in main()
    argv,        \* the arguments after the program name: <<>> or <<s>>
    NT,          \* main.cpp:71  number of time steps
    save,        \* main.cpp:85
    NY,          \* main.cpp:69  (only L = NY/5 depends on it here)
    Re,          \* main.cpp:74
    M_,          \* Continuum::M_   "unset" | "null" | "valid"
    F_,          \* Population::F_  "unset" | "null" | "valid"
    TAU_,        \* Population::TAU_   as a fraction <<num, den>>, den > 0
    OMEGA_,      \* Population::OMEGA_ as a fraction <<num, den>>
    i,           \* loop counter of the time loop
    exitStatus,  \* -1 while running; the exit status afterwards
    built,       \* the three boundary lists exist
    reported,    \* messages written to std::cerr
    ops,         \* history: operations of the current loop iteration, in order
    ran,         \* history: every operation on the buffers executed so far
    passes,      \* history: parities of the collide+stream passes executed
    exports      \* history: step indices at which the export ran

mainVars == <<pc, argv, NT, save, NY, Re, M_, F_, TAU_, OMEGA_, i, exitStatus,
              built, reported, ops, ran, passes, exports>>

VARIABLES
    \* ---- Load / Store passes ---------------------------------------------
    sdim,        \* <<NX, NY, NZ>> of the periodic lattice
    F,           \* Population::F_[...]: the population buffer
    F0,          \* history: the buffer before the even pass
    odd,         \* template parameter of the running pass
    relax,       \* FALSE: pure streaming (no collision)
    wcell,       \* per worker: index into its list of cells
    wf,          \* per worker: the cell-local array f[ND] (<<>> when not loaded)
    spc          \* "even" | "odd" | "done" | "off"

streamVars == <<sdim, F, F0, odd, relax, wcell, wf, spc>>

VARIABLES
    \* ---- InitContinuum ---------------------------------------------------
    cdim,        \* <<NX, NY, NZ>> of the continuum
    M,           \* Continuum::M_[...]: one tuple of NM_ values per cell
    tblock,      \* per thread: how many of its blocks it has finished
    writers,     \* history: per cell index, the blocks that wrote it
    oob,         \* history: a write fell outside the buffer
    ipc          \* "run" | "done" | "off"

initVars == <<cdim, M, tblock, writers, oob, ipc>>

vars == <<mainVars, streamVars, initVars>>

-----------------------------------------------------------------------------
(* Bounds of the model *)
MaxNT == 21
MaxNYMain == 5

(* stdlib.h *)
EXIT_SUCCESS == 0
EXIT_FAILURE == 1

-----------------------------------------------------------------------------
(***************************************************************************)
(* main(): src/main.cpp                                                    *)
(***************************************************************************)

(* Real numbers are exact fractions <<num, den>> with den > 0. *)
FracMul(a, b) == <<a[1] * b[1], a[2] * b[2]>>

FracDiv(a, b) ==
    IF b[1] > 0 THEN <<a[1] * b[2], a[2] * b[1]>>
                ELSE <<-(a[1] * b[2]), -(a[2] * b[1])>>

FracAdd(a, b) == <<a[1] * b[2] + b[1] * a[2], a[2] * b[2]>>

FracLess(a, b) == a[1] * b[2] < b[1] * a[2]

FracOfInt(n) == <<n, 1>>

(* main.cpp:75  constexpr F_TYPE U = 0.05 *)
U == <<1, 20>>

(* LT::CS * LT::CS: the squared lattice speed of sound, 1/3 *)
CS2 == <<1, 3>>

(* Reynolds numbers tried (main.cpp:74 configures 1000.0) *)
ReSet == {100, 1000}

(* main.cpp:76  constexpr unsigned int L = NY/5 *)
CharLength(ny) == ny \div 5

(* Population::Population, initialiser list (population.hpp:74-75) *)
NuOf(re, u, l) == FracDiv(FracMul(u, FracOfInt(l)), FracOfInt(re))

TauOf(nu) == FracAdd(FracDiv(nu, CS2), <<1, 2>>)

OmegaOf(tau) == FracDiv(<<1, 1>>, tau)

(* argv[1] values tried; "--foo" stands for every unrecognised argument *)
ArgStrings == {"--version", "--v", "--convert", "--info", "--help", "--foo"}

Args == {<<>>} \cup {<<s>> : s \in ArgStrings}

(* Bounce-back ahead of the collision in the even pass *)
LoopBodyBounceFirst ==
    << [op |-> "Guo_inlet",     odd |-> FALSE],
       [op |-> "Guo_outlet",    odd |-> FALSE],
       [op |-> "BounceBack",    odd |-> FALSE],
       [op |-> "CollideStream", odd |-> FALSE],
       [op |-> "Guo_inlet",     odd |-> TRUE],
       [op |-> "Guo_outlet",    odd |-> TRUE],
       [op |-> "CollideStream", odd |-> TRUE],
       [op |-> "BounceBack",    odd |-> TRUE] >>

(* The body of the time loop up to the export test, main.cpp:115-124 *)
LoopBody ==
    << [op |-> "Guo_inlet",     odd |-> FALSE],
       [op |-> "Guo_outlet",    odd |-> FALSE],
       [op |-> "CollideStream", odd |-> FALSE],
       [op |-> "BounceBack",    odd |-> FALSE],
       [op |-> "Guo_inlet",     odd |-> TRUE],
       [op |-> "Guo_outlet",    odd |-> TRUE],
       [op |-> "CollideStream", odd |-> TRUE],
       [op |-> "BounceBack",    odd |-> TRUE] >>

(* The export of main.cpp:128-131: StatusOutput, SetZero(wall), ExportVtk *)
ExportOp == [op |-> "Export", odd |-> TRUE]

(* Which buffers an operation dereferences *)
UsesMacro(o) == o \in {"InitContinuum", "InitLattice", "CollideStream", "Export"}

UsesMicro(o) ==
    o \in {"InitLattice", "Guo_inlet", "Guo_outlet", "CollideStream", "BounceBack"}

(* Dereferencing a null buffer is undefined behaviour. *)
NullDeref(o) ==
    \/ UsesMacro(o) /\ M_ = "null"
    \/ UsesMicro(o) /\ F_ = "null"

Running == exitStatus = -1 /\ pc # "crashed"

MainInit ==
    /\ pc = "start"
    /\ argv \in Args
    /\ NT \in 0..MaxNT
    /\ save \in BOOLEAN
    /\ NY \in 1..MaxNYMain
    /\ Re \in ReSet
    /\ M_ = "unset"
    /\ F_ = "unset"
    /\ TAU_ = <<0, 1>>
    /\ OMEGA_ = <<0, 1>>
    /\ i = 0
    /\ exitStatus = -1
    /\ built = FALSE
    /\ reported = {}
    /\ ops = <<>>
    /\ ran = {}
    /\ passes = <<>>
    /\ exports = {}

MainOff ==
    /\ pc = "off"
    /\ argv = <<>>
    /\ NT = 0
    /\ save = FALSE
    /\ NY = 1
    /\ Re = 1
    /\ M_ = "unset"
    /\ F_ = "unset"
    /\ TAU_ = <<0, 1>>
    /\ OMEGA_ = <<0, 1>>
    /\ i = 0
    /\ exitStatus = -1
    /\ built = FALSE
    /\ reported = {}
    /\ ops = <<>>
    /\ ran = {}
    /\ passes = <<>>
    /\ exports = {}

(* exit(status) *)
Exit(status) ==
    /\ pc' = "exited"
    /\ exitStatus' = status

(* Abnormal termination by a signal: the wait status is not zero. *)
Crash ==
    /\ pc' = "crashed"
    /\ exitStatus' = 128

(* The dispatch with --convert leaving through EXIT_SUCCESS *)
DispatchConvertSucceeds ==
    /\ pc = "start"
    /\ IF Len(argv) > 0 /\ argv[1] \in {"--version", "--v", "--convert"}
         THEN Exit(EXIT_SUCCESS) /\ UNCHANGED reported
       ELSE IF Len(argv) > 0 /\ argv[1] \in {"--info", "--help"}
         THEN Exit(EXIT_SUCCESS) /\ reported' = reported \cup {"Usage"}
       ELSE pc' = "construct_macro" /\ UNCHANGED <<exitStatus, reported>>
    /\ UNCHANGED <<argv, NT, save, NY, Re, M_, F_, TAU_, OMEGA_, i, built,
                   ops, ran, passes, exports>>
    /\ UNCHANGED <<streamVars, initVars>>

(* main.cpp:39-58 *)
Dispatch ==
    /\ pc = "start"
    /\ IF Len(argv) > 0 /\ argv[1] \in {"--version", "--v"}
         THEN Exit(EXIT_SUCCESS) /\ UNCHANGED reported
       ELSE IF Len(argv) > 0 /\ argv[1] = "--convert"
         THEN Exit(EXIT_FAILURE)
              /\ reported' = reported \cup {"Error: Feature not implemented yet."}
       ELSE IF Len(argv) > 0 /\ argv[1] \in {"--info", "--help"}
         THEN Exit(EXIT_SUCCESS) /\ reported' = reported \cup {"Usage"}
       ELSE pc' = "construct_macro" /\ UNCHANGED <<exitStatus, reported>>
    /\ UNCHANGED <<argv, NT, save, NY, Re, M_, F_, TAU_, OMEGA_, i, built,
                   ops, ran, passes, exports>>
    /\ UNCHANGED <<streamVars, initVars>>

(* Continuum::Continuum, continuum.hpp:34-44 (main.cpp:88): aligned_alloc   *)
(* may return a null pointer; the constructor reports it and returns.      *)
ConstructMacro ==
    /\ pc = "construct_macro"
    /\ \E ptr \in {"null", "valid"} :
         /\ M_' = ptr
         /\ reported' = IF ptr = "null"
                          THEN reported \cup {"Fatal error: Continuum"}
                          ELSE reported
    /\ pc' = "construct_micro"
    /\ UNCHANGED <<argv, NT, save, NY, Re, F_, TAU_, OMEGA_, i, exitStatus,
                   built, ops, ran, passes, exports>>
    /\ UNCHANGED <<streamVars, initVars>>

(* Population::Population, population.hpp:57-82 (main.cpp:89) *)
ConstructMicro ==
    /\ pc = "construct_micro"
    /\ TAU_' = TauOf(NuOf(Re, U, CharLength(NY)))
    /\ OMEGA_' = OmegaOf(TauOf(NuOf(Re, U, CharLength(NY))))
    /\ \E ptr \in {"null", "valid"} :
         /\ F_' = ptr
         /\ IF ptr = "null"
              THEN /\ reported' = reported \cup {"Fatal error: Population"}
                   /\ Exit(EXIT_FAILURE)
              ELSE /\ pc' = "geometry"
                   /\ UNCHANGED <<reported, exitStatus>>
    /\ UNCHANGED <<argv, NT, save, NY, Re, M_, i, built, ops, ran, passes,
                   exports>>
    /\ UNCHANGED <<streamVars, initVars>>

(* main.cpp:94-100: the wall, inlet and outlet lists are built *)
Geometry ==
    /\ pc = "geometry"
    /\ built' = TRUE
    /\ pc' = "init_continuum"
    /\ UNCHANGED <<argv, NT, save, NY, Re, M_, F_, TAU_, OMEGA_, i, exitStatus,
                   reported, ops, ran, passes, exports>>
    /\ UNCHANGED <<streamVars, initVars>>

(* One operation on the buffers: it runs, unless a null buffer makes the   *)
(* behaviour undefined, and then it either crashes or goes on.             *)
RunOp(o, next) ==
    /\ ran' = ran \cup {o}
    /\ \/ pc' = next /\ UNCHANGED exitStatus
       \/ NullDeref(o) /\ Crash

(* main.cpp:103  InitContinuum(Macro, ...) *)
InitCont ==
    /\ pc = "init_continuum"
    /\ RunOp("InitContinuum", "init_lattice")
    /\ UNCHANGED <<argv, NT, save, NY, Re, M_, F_, TAU_, OMEGA_, i, built,
                   reported, ops, passes, exports>>
    /\ UNCHANGED <<streamVars, initVars>>

(* main.cpp:104  InitLattice<false>(Macro, Micro) *)
InitLat ==
    /\ pc = "init_lattice"
    /\ RunOp("InitLattice", "loop_test")
    /\ UNCHANGED <<argv, NT, save, NY, Re, M_, F_, TAU_, OMEGA_, i, built,
                   reported, ops, passes, exports>>
    /\ UNCHANGED <<streamVars, initVars>>

(* main.cpp:112  for (size_t i = 0; i < NT; i+=2), and the return of :145 *)
LoopTest ==
    /\ pc = "loop_test"
    /\ IF i < NT
         THEN /\ pc' = "stage_1"
              /\ ops' = <<>>
              /\ UNCHANGED exitStatus
         ELSE /\ Exit(EXIT_SUCCESS)
              /\ UNCHANGED ops
    /\ UNCHANGED <<argv, NT, save, NY, Re, M_, F_, TAU_, OMEGA_, i, built,
                   reported, ran, passes, exports>>
    /\ UNCHANGED <<streamVars, initVars>>

StagePc(k) == "stage_" \o ToString(k)

AfterStage(k) == IF k < Len(LoopBody) THEN StagePc(k + 1) ELSE "export_test"

(* main.cpp:115-124: the k-th call of the loop body *)
LoopStage(k) ==
    /\ pc = StagePc(k)
    /\ RunOp(LoopBody[k].op, AfterStage(k))
    /\ ops' = Append(ops, LoopBody[k])
    /\ passes' = IF LoopBody[k].op = "CollideStream"
                   THEN Append(passes, LoopBody[k].odd)
                   ELSE passes
    /\ UNCHANGED <<argv, NT, save, NY, Re, M_, F_, TAU_, OMEGA_, i, built,
                   reported, exports>>
    /\ UNCHANGED <<streamVars, initVars>>

(* main.cpp:126  if ((save == true) && (i % (NT/10) == 0)).  With NT < 10   *)
(* the divisor is zero: undefined behaviour, which traps, or yields some   *)
(* remainder.                                                              *)
ExportDue == save /\ i % (NT \div 10) = 0

ExportTest ==
    /\ pc = "export_test"
    /\ IF save /\ NT \div 10 = 0
         THEN \/ Crash /\ UNCHANGED i
              \/ pc' = "export" /\ UNCHANGED <<exitStatus, i>>
              \/ pc' = "loop_test" /\ i' = i + 2 /\ UNCHANGED exitStatus
         ELSE IF ExportDue
           THEN pc' = "export" /\ UNCHANGED <<exitStatus, i>>
           ELSE pc' = "loop_test" /\ i' = i + 2 /\ UNCHANGED exitStatus
    /\ UNCHANGED <<argv, NT, save, NY, Re, M_, F_, TAU_, OMEGA_, built,
                   reported, ops, ran, passes, exports>>
    /\ UNCHANGED <<streamVars, initVars>>

(* main.cpp:128-131, then the i+=2 of the loop header *)
Export ==
    /\ pc = "export"
    /\ ran' = ran \cup {ExportOp.op}
    /\ ops' = Append(ops, ExportOp)
    /\ exports' = exports \cup {i}
    /\ \/ pc' = "loop_test" /\ i' = i + 2 /\ UNCHANGED exitStatus
       \/ NullDeref(ExportOp.op) /\ Crash /\ UNCHANGED i
    /\ UNCHANGED <<argv, NT, save, NY, Re, M_, F_, TAU_, OMEGA_, built,
                   reported, passes>>
    /\ UNCHANGED <<streamVars, initVars>>



-----------------------------------------------------------------------------
(***************************************************************************)
(* Population::Load / Population::Store on a periodic lattice              *)
(* (population_indexing_avx.hpp), with the D3Q27 lattice of main.cpp:65    *)
(***************************************************************************)

(* lattice::D3Q27: values per cell, and the offset between the two halves *)
ND == 28
OFF == 14

(* lattice::D3Q27: velocity of entry n*OFF+d; entry 0 is the rest          *)
(* population, entry OFF the padding, entry k+OFF the opposite of entry k  *)
DXs == << 0,  1,  0,  0,  1,  1,  1,  1,  0,  0,  1,  1,  1,  1,
          0, -1,  0,  0, -1, -1, -1, -1,  0,  0, -1, -1, -1, -1 >>
DYs == << 0,  0,  1,  0,  1, -1,  0,  0,  1,  1,  1, -1,  1, -1,
          0,  0, -1,  0, -1,  1,  0,  0, -1, -1, -1,  1, -1,  1 >>
DZs == << 0,  0,  0,  1,  0,  0,  1, -1,  1, -1,  1,  1, -1, -1,
          0,  0,  0, -1,  0,  0, -1,  1, -1,  1, -1, -1,  1,  1 >>

DX(k) == DXs[k + 1]
DY(k) == DYs[k + 1]
DZ(k) == DZs[k + 1]

(* Number of cells of a domain <<NX, NY, NZ>> *)
NumCells(dim) == dim[1] * dim[2] * dim[3]

(* Coordinates of the cell with linear cell number c (x runs fastest) *)
CellX(dim, c) == c % dim[1]
CellY(dim, c) == (c \div dim[1]) % dim[2]
CellZ(dim, c) == c \div (dim[1] * dim[2])

CellAt(dim, x, y, z) == (z * dim[2] + y) * dim[1] + x

(* The window {prev, self, next} of a coordinate on a periodic axis *)
Window(v, n) == [k \in 0..2 |-> (v + n + k - 1) % n]

(* Population::SpatialToLinear with NPOP = 1, p = 0 *)
SpatialToLinear(dim, x, y, z, n, d) ==
    ((z * dim[2] + y) * dim[1] + x) * ND + n * OFF + d

(* Population::AA_IndexRead<odd> *)
AA_IndexRead(oddp, dim, xw, yw, zw, n, d) ==
    IF oddp
      THEN SpatialToLinear(dim, xw[1 + DX((1 - n) * OFF + d)],
                                yw[1 + DY((1 - n) * OFF + d)],
                                zw[1 + DZ((1 - n) * OFF + d)], n, d)
      ELSE SpatialToLinear(dim, xw[1], yw[1], zw[1], 1 - n, d)

(* Population::AA_IndexWrite<odd> *)
AA_IndexWrite(oddp, dim, xw, yw, zw, n, d) ==
    IF oddp
      THEN SpatialToLinear(dim, xw[1 + DX(n * OFF + d)],
                                yw[1 + DY(n * OFF + d)],
                                zw[1 + DZ(n * OFF + d)], 1 - n, d)
      ELSE SpatialToLinear(dim, xw[1], yw[1], zw[1], n, d)

(* Store indexing with the read index *)
StoreIndexAsRead(oddp, dim, c, k) ==
    AA_IndexRead(oddp, dim, Window(CellX(dim, c), dim[1]),
                 Window(CellY(dim, c), dim[2]), Window(CellZ(dim, c), dim[3]),
                 k \div OFF, k % OFF)

(* Store indexing with the other parity's write index *)
StoreIndexOtherParity(oddp, dim, c, k) ==
    AA_IndexWrite(~oddp, dim, Window(CellX(dim, c), dim[1]),
                  Window(CellY(dim, c), dim[2]), Window(CellZ(dim, c), dim[3]),
                  k \div OFF, k % OFF)

(* Load, line 37: the offset read into f[n*OFF+d], k = n*OFF+d *)
LoadIndex(oddp, dim, c, k) ==
    AA_IndexRead(oddp, dim, Window(CellX(dim, c), dim[1]),
                 Window(CellY(dim, c), dim[2]), Window(CellZ(dim, c), dim[3]),
                 k \div OFF, k % OFF)

(* Store, line 68: the offset f[n*OFF+d] is written to, k = n*OFF+d *)
StoreIndex(oddp, dim, c, k) ==
    AA_IndexWrite(oddp, dim, Window(CellX(dim, c), dim[1]),
                  Window(CellY(dim, c), dim[2]), Window(CellZ(dim, c), dim[3]),
                  k \div OFF, k % OFF)

(* Load without the final f[OFF] = 0.0 *)
LoadKeepsPadding(oddp, dim, buf, c) ==
    [k \in 0..(ND - 1) |-> buf[LoadIndex(oddp, dim, c, k)]]

(* Population::Load<odd>: both loops, then f[OFF] = 0.0 *)
Load(oddp, dim, buf, c) ==
    [k \in 0..(ND - 1) |-> IF k = OFF THEN 0 ELSE buf[LoadIndex(oddp, dim, c, k)]]

(* Population::Store<odd>: the assignments F[index(n,d)] = f[n*OFF+d] in  *)
(* loop order, from k = n*OFF+d on                                         *)
RECURSIVE StoreFrom(_, _, _, _, _, _)
StoreFrom(oddp, dim, buf, c, f, k) ==
    IF k >= ND THEN buf
    ELSE StoreFrom(oddp, dim, [buf EXCEPT ![StoreIndex(oddp, dim, c, k)] = f[k]],
                   c, f, k + 1)

Store(oddp, dim, buf, c, f) == StoreFrom(oddp, dim, buf, c, f, 0)

(* The offsets Load reads and Store writes for one cell *)
LoadReads(oddp, dim, c) == {LoadIndex(oddp, dim, c, k) : k \in 0..(ND - 1)}

StoreWrites(oddp, dim, c) == {StoreIndex(oddp, dim, c, k) : k \in 0..(ND - 1)}

(* A collision: any function of the cell's own loaded values; this one     *)
(* mixes the cell's density into every population.                         *)
RECURSIVE SumTo(_, _)
SumTo(f, k) == IF k < 0 THEN 0 ELSE f[k] + SumTo(f, k - 1)

Collide(f) ==
    [k \in 0..(ND - 1) |-> IF k = OFF THEN f[k] ELSE 2 * f[k] + SumTo(f, ND - 1)]

(* The per-cell work between Load and Store *)
CellUpdate(rel, f) == IF rel THEN Collide(f) ELSE f

(* Workers: the cells are dealt round-robin to the workers, each worker    *)
(* takes its cells in increasing order.                                    *)
Workers == {1, 2}

NumWorkers == Cardinality(Workers)

NthCell(w, n) == (w - 1) + n * NumWorkers

MaxNX == 3
MaxNY == 3
MaxNZ == 2

StreamInit ==
    /\ sdim \in (1..MaxNX) \X (1..MaxNY) \X (1..MaxNZ)
    /\ F = [idx \in 0..(NumCells(sdim) * ND - 1) |-> idx + 1]
    /\ F0 = F
    /\ odd = FALSE
    /\ relax \in BOOLEAN
    /\ wcell = [w \in Workers |-> 0]
    /\ wf = [w \in Workers |-> <<>>]
    /\ spc = "even"

(* A worker loads its next cell *)
WLoad(w) ==
    /\ spc \in {"even", "odd"}
    /\ wf[w] = <<>>
    /\ NthCell(w, wcell[w]) < NumCells(sdim)
    /\ wf' = [wf EXCEPT ![w] = Load(odd, sdim, F, NthCell(w, wcell[w]))]
    /\ UNCHANGED <<sdim, F, F0, odd, relax, wcell, spc>>
    /\ UNCHANGED <<mainVars, initVars>>

(* A worker collides and stores the cell it has loaded *)
WStore(w) ==
    /\ spc \in {"even", "odd"}
    /\ wf[w] # <<>>
    /\ F' = Store(odd, sdim, F, NthCell(w, wcell[w]), CellUpdate(relax, wf[w]))
    /\ wf' = [wf EXCEPT ![w] = <<>>]
    /\ wcell' = [wcell EXCEPT ![w] = @ + 1]
    /\ UNCHANGED <<sdim, F0, odd, relax, spc>>
    /\ UNCHANGED <<mainVars, initVars>>

PassComplete == \A w \in Workers : NthCell(w, wcell[w]) >= NumCells(sdim) /\ wf[w] = <<>>

(* The barrier at the end of a pass; the odd pass follows the even one *)
EndPass ==
    /\ spc \in {"even", "odd"}
    /\ PassComplete
    /\ IF spc = "even"
         THEN /\ spc' = "odd"
              /\ odd' = TRUE
              /\ wcell' = [w \in Workers |-> 0]
         ELSE /\ spc' = "done"
              /\ UNCHANGED <<odd, wcell>>
    /\ UNCHANGED <<sdim, F, F0, relax, wf>>
    /\ UNCHANGED <<mainVars, initVars>>

(* One pass executed cell after cell by a single thread.  (The test on    *)
(* the domain only makes TLC compute each cell's buffer before it goes on  *)
(* to the next cell.)                                                      *)
RECURSIVE SeqPass(_, _, _, _, _)
SeqPass(oddp, dim, rel, buf, c) ==
    IF c >= NumCells(dim) THEN buf
    ELSE LET next == Store(oddp, dim, buf, c, CellUpdate(rel, Load(oddp, dim, buf, c)))
         IN  IF DOMAIN next = DOMAIN buf
               THEN SeqPass(oddp, dim, rel, next, c + 1)
               ELSE next

-----------------------------------------------------------------------------
(***************************************************************************)
(* Properties of the Load / Store passes                                   *)
(***************************************************************************)
Cells == 0..(NumCells(sdim) - 1)

Directions == (0..(ND - 1)) \ {OFF}

(* The neighbour a population of direction k arrives from in one           *)
(* streaming step on the periodic domain                                   *)
Upstream(dim, c, k) ==
    CellAt(dim, (CellX(dim, c) - DX(k) + dim[1]) % dim[1],
                (CellY(dim, c) - DY(k) + dim[2]) % dim[2],
                (CellZ(dim, c) - DZ(k) + dim[3]) % dim[3])

PassStart == \A w \in Workers : wcell[w] = 0 /\ wf[w] = <<>>

(* C1: with pure streaming on a periodic domain, after the even pass the   *)
(* odd Load reads at every cell and direction the value that was one       *)
(* lattice spacing upstream, and after the odd pass the buffer is in the   *)
(* even-pass layout again (an even Load reads it) with every value moved   *)
(* two lattice spacings along its direction.                               *)
C1_TwoStepShift ==
    /\ (spc = "odd" /\ PassStart /\ ~relax)
         => \A c \in Cells : \A k \in Directions :
              Load(TRUE, sdim, F, c)[k]
                = Load(FALSE, sdim, F0, Upstream(sdim, c, k))[k]
    /\ (spc = "done" /\ ~relax)
         => \A c \in Cells : \A k \in Directions :
              Load(FALSE, sdim, F, c)[k]
                = Load(FALSE, sdim, F0, Upstream(sdim, Upstream(sdim, c, k), k))[k]

C1_Witness ==
    /\ spc = "done"
    /\ ~relax
    /\ sdim = <<MaxNX, MaxNY, MaxNZ>>
    /\ F # F0

(* C2: within a pass the offsets Store writes for one cell are disjoint    *)
(* from the offsets Store writes and Load reads for every other cell, and  *)
(* whatever the interleaving of the workers, the buffer at the end of a    *)
(* pass is the one a single thread produces.                               *)
C2_DisjointAndDeterministic ==
    /\ (spc = "even" /\ PassStart)
         => \A parity \in BOOLEAN : \A a \in Cells : \A b \in Cells \ {a} :
              StoreWrites(parity, sdim, a)
                \cap (StoreWrites(parity, sdim, b) \cup LoadReads(parity, sdim, b)) = {}
    /\ (spc = "odd" /\ PassStart)
         => F = SeqPass(FALSE, sdim, relax, F0, 0)
    /\ spc = "done"
         => F = SeqPass(TRUE, sdim, relax, SeqPass(FALSE, sdim, relax, F0, 0), 0)

C2_Witness ==
    /\ spc = "odd"
    /\ relax
    /\ \A w \in Workers : wf[w] # <<>> /\ wcell[w] > 0
    /\ wcell[1] # wcell[2]

(* The windows and the read / write offsets of the cell a worker is at,    *)
(* for half n and entry d                                                  *)
XW(w) == Window(CellX(sdim, NthCell(w, wcell[w])), sdim[1])
YW(w) == Window(CellY(sdim, NthCell(w, wcell[w])), sdim[2])
ZW(w) == Window(CellZ(sdim, NthCell(w, wcell[w])), sdim[3])

ReadAt(w, n, d) == AA_IndexRead(odd, sdim, XW(w), YW(w), ZW(w), n, d)

WriteAt(w, n, d) == AA_IndexWrite(odd, sdim, XW(w), YW(w), ZW(w), n, d)

(* A step in which worker w returns from Load, resp. from Store *)
Loaded(w) == wf[w] = <<>> /\ wf'[w] # <<>>

Stored(w) == wf[w] # <<>> /\ wf'[w] = <<>>

(* C11: Load<parity> of a cell leaves the population buffer unchanged and  *)
(* fills f so that for every half n and every d < OFF other than           *)
(* (n = 1, d = 0) f[n*OFF+d] is the buffer value at AA_IndexRead(n, d),    *)
(* while the padding entry f[OFF] is 0 whatever the buffer holds at its    *)
(* read index; Store<parity> writes all ND entries of the f it is given,   *)
(* padding included, to AA_IndexWrite(n, d) and changes no other entry of  *)
(* the buffer.                                                             *)
C11_LoadStoreContract ==
    [][\A w \in Workers :
         /\ Loaded(w) =>
               /\ F' = F
               /\ DOMAIN wf'[w] = 0..(ND - 1)
               /\ \A n \in 0..1 : \A d \in 0..(OFF - 1) :
                     IF n = 1 /\ d = 0
                       THEN wf'[w][OFF] = 0
                       ELSE wf'[w][n * OFF + d] = F[ReadAt(w, n, d)]
         /\ Stored(w) =>
               LET f == CellUpdate(relax, wf[w])
                   written == {WriteAt(w, n, d) : n \in 0..1, d \in 0..(OFF - 1)}
               IN  /\ DOMAIN F' = DOMAIN F
                   /\ \A n \in 0..1 : \A d \in 0..(OFF - 1) :
                         F'[WriteAt(w, n, d)] = f[n * OFF + d]
                   /\ \A idx \in (DOMAIN F) \ written : F'[idx] = F[idx]
      ]_vars

(* An even pass with collisions: a worker holds a loaded f whose padding   *)
(* is 0 although the buffer is not 0 at the padding's read index, and the  *)
(* other worker's Store has written the padding 0 of its f into the buffer.*)
C11_Witness ==
    /\ spc = "even"
    /\ relax
    /\ F # F0
    /\ \E w \in Workers : \E v \in Workers \ {w} :
         /\ wf[w] # <<>>
         /\ wf[w][OFF] = 0
         /\ F[ReadAt(w, 1, 0)] # 0
         /\ wf[w][1] = F[ReadAt(w, 0, 1)]
         /\ wcell[v] > 0
         /\ wf[v] = <<>>
         /\ F[AA_IndexWrite(odd, sdim,
                 Window(CellX(sdim, NthCell(v, wcell[v] - 1)), sdim[1]),
                 Window(CellY(sdim, NthCell(v, wcell[v] - 1)), sdim[2]),
                 Window(CellZ(sdim, NthCell(v, wcell[v] - 1)), sdim[3]), 1, 0)] = 0

-----------------------------------------------------------------------------
(***************************************************************************)
(* InitContinuum: src/continuum/initialisation.hpp                         *)
(***************************************************************************)

(* initialisation.hpp:37 *)
BLOCK_SIZE == 32

(* Continuum::NM_, continuum.hpp:30 *)
NM_ == 4

(* cef::ceil(static_cast<double>(n) / BLOCK_SIZE) *)
CeilDiv(n, b) == (n + b - 1) \div b

Min(a, b) == IF a < b THEN a ELSE b

(* The number of blocks in x rounded down *)
NUM_BLOCKS_X_Floor(dim) == dim[1] \div BLOCK_SIZE

(* The end of the x range without the clipping to NX *)
x_end_Unclipped(dim, block) == BLOCK_SIZE * (block % CeilDiv(dim[1], BLOCK_SIZE)) + BLOCK_SIZE

(* initialisation.hpp:38-41 *)
NUM_BLOCKS_Z(dim) == CeilDiv(dim[3], BLOCK_SIZE)
NUM_BLOCKS_Y(dim) == CeilDiv(dim[2], BLOCK_SIZE)
NUM_BLOCKS_X(dim) == CeilDiv(dim[1], BLOCK_SIZE)
NUM_BLOCKS(dim) == NUM_BLOCKS_X(dim) * NUM_BLOCKS_Y(dim) * NUM_BLOCKS_Z(dim)

(* initialisation.hpp:46-47, 51-52, 56-57 *)
z_start(dim, block) == BLOCK_SIZE * (block \div (NUM_BLOCKS_X(dim) * NUM_BLOCKS_Y(dim)))
z_end(dim, block) == Min(z_start(dim, block) + BLOCK_SIZE, dim[3])

y_start(dim, block) ==
    BLOCK_SIZE * ((block % (NUM_BLOCKS_X(dim) * NUM_BLOCKS_Y(dim))) \div NUM_BLOCKS_X(dim))
y_end(dim, block) == Min(y_start(dim, block) + BLOCK_SIZE, dim[2])

x_start(dim, block) == BLOCK_SIZE * (block % NUM_BLOCKS_X(dim))
x_end(dim, block) == Min(x_start(dim, block) + BLOCK_SIZE, dim[1])

(* Continuum::SpatialToLinear(x, y, z, m) *)
ContinuumIndex(dim, x, y, z, m) == ((z * dim[2] + y) * dim[1] + x) * NM_ + m

(* Continuum::memSize_ / sizeof(T), continuum.hpp:31 *)
ContinuumSize(dim) == dim[3] * dim[2] * dim[1] * NM_

(* The values of main.cpp:79-82, kept apart by name *)
InitialValues == <<"RHO_0", "U_0", "V_0", "W_0">>

(* initialisation.hpp:61-64: the four assignments of one cell.  st holds   *)
(* the buffer and, per offset, the blocks that have written it.            *)
WriteCell(dim, st, block, x, y, z) ==
    [M |-> [st.M EXCEPT ![ContinuumIndex(dim, x, y, z, 0)] = InitialValues[1],
                        ![ContinuumIndex(dim, x, y, z, 1)] = InitialValues[2],
                        ![ContinuumIndex(dim, x, y, z, 2)] = InitialValues[3],
                        ![ContinuumIndex(dim, x, y, z, 3)] = InitialValues[4]],
     writers |-> [st.writers EXCEPT ![ContinuumIndex(dim, x, y, z, 0)] = @ \cup {block},
                                    ![ContinuumIndex(dim, x, y, z, 1)] = @ \cup {block},
                                    ![ContinuumIndex(dim, x, y, z, 2)] = @ \cup {block},
                                    ![ContinuumIndex(dim, x, y, z, 3)] = @ \cup {block}]]

(* initialisation.hpp:59-65: the x loop, from x on.  (The test on the      *)
(* domain only makes TLC finish one cell before it goes on to the next.)   *)
RECURSIVE LoopX(_, _, _, _, _, _)
LoopX(dim, st, block, x, y, z) ==
    IF x >= x_end(dim, block) THEN st
    ELSE LET next == WriteCell(dim, st, block, x, y, z)
         IN  IF DOMAIN next.M = {} THEN next
             ELSE LoopX(dim, next, block, x + 1, y, z)

(* initialisation.hpp:54-66: the y loop, from y on *)
RECURSIVE LoopY(_, _, _, _, _)
LoopY(dim, st, block, y, z) ==
    IF y >= y_end(dim, block) THEN st
    ELSE LET next == LoopX(dim, st, block, x_start(dim, block), y, z)
         IN  IF DOMAIN next.M = {} THEN next
             ELSE LoopY(dim, next, block, y + 1, z)

(* initialisation.hpp:49-67: the z loop, from z on *)
RECURSIVE LoopZ(_, _, _, _)
LoopZ(dim, st, block, z) ==
    IF z >= z_end(dim, block) THEN st
    ELSE LET next == LoopY(dim, st, block, y_start(dim, block), z)
         IN  IF DOMAIN next.M = {} THEN next
             ELSE LoopZ(dim, next, block, z + 1)

(* initialisation.hpp:44-68: the body of the block loop for one block *)
BlockBody(dim, st, block) == LoopZ(dim, st, block, z_start(dim, block))

(* The largest offset the block writes (the index grows with x, y, z, m) *)
BlockNonEmpty(dim, block) ==
    /\ x_start(dim, block) < x_end(dim, block)
    /\ y_start(dim, block) < y_end(dim, block)
    /\ z_start(dim, block) < z_end(dim, block)

LastOffset(dim, block) ==
    ContinuumIndex(dim, x_end(dim, block) - 1, y_end(dim, block) - 1,
                   z_end(dim, block) - 1, NM_ - 1)

(* omp parallel for schedule(static,1): thread t takes the blocks          *)
(* t, t + T, t + 2T, ... in this order.  A block is the unit of work: its  *)
(* writes commute with those of the other blocks unless two blocks write   *)
(* one offset, which the history variable writers records.                 *)
Threads == {0, 1}

BlockOf(t, n) == t + n * Cardinality(Threads)

(* Domain sizes tried: 1, 2 and the sizes from the block edge on *)
MaxOver == 1
MaxVolume == 2200

DimChoices == {1, 2} \cup {BLOCK_SIZE + e : e \in 0..MaxOver}

ContInit ==
    /\ cdim \in {d \in DimChoices \X DimChoices \X DimChoices :
                    d[1] * d[2] * d[3] <= MaxVolume}
    /\ M = [idx \in 0..(ContinuumSize(cdim) - 1) |-> "uninit"]
    /\ tblock = [t \in Threads |-> 0]
    /\ writers = [idx \in 0..(ContinuumSize(cdim) - 1) |-> {}]
    /\ oob = FALSE
    /\ ipc = "run"

(* A thread executes the body of the block loop for its next block *)
WriteBlock(t) ==
    LET block == BlockOf(t, tblock[t])
        after == BlockBody(cdim, [M |-> M, writers |-> writers], block)
    IN  /\ ipc = "run"
        /\ block < NUM_BLOCKS(cdim)
        /\ M' = after.M
        /\ writers' = after.writers
        /\ oob' = (oob \/ (BlockNonEmpty(cdim, block)
                             /\ LastOffset(cdim, block) >= ContinuumSize(cdim)))
        /\ tblock' = [tblock EXCEPT ![t] = @ + 1]
        /\ UNCHANGED <<cdim, ipc>>
        /\ UNCHANGED <<mainVars, streamVars>>

(* The implicit barrier at the end of the parallel loop: InitContinuum     *)
(* returns                                                                 *)
InitReturn ==
    /\ ipc = "run"
    /\ \A t \in Threads : BlockOf(t, tblock[t]) >= NUM_BLOCKS(cdim)
    /\ ipc' = "done"
    /\ UNCHANGED <<cdim, M, tblock, writers, oob>>
    /\ UNCHANGED <<mainVars, streamVars>>

-----------------------------------------------------------------------------
(***************************************************************************)
(* Properties of InitContinuum                                             *)
(***************************************************************************)
Blocks(dim) == 0..(NUM_BLOCKS(dim) - 1)

InRange(dim, block, x, y, z) ==
    /\ x_start(dim, block) <= x /\ x < x_end(dim, block)
    /\ y_start(dim, block) <= y /\ y < y_end(dim, block)
    /\ z_start(dim, block) <= z /\ z < z_end(dim, block)

(* C9: when InitContinuum has returned, every cell of the domain reads     *)
(* (RHO_0, U_0, V_0, W_0) in its components 0..3, whatever the domain size *)
(* and the order in which the threads took their blocks.                   *)
C9_EveryCellInitialised ==
    ipc = "done"
        => \A x \in 0..(cdim[1] - 1) : \A y \in 0..(cdim[2] - 1) :
             \A z \in 0..(cdim[3] - 1) :
               /\ M[ContinuumIndex(cdim, x, y, z, 0)] = "RHO_0"
               /\ M[ContinuumIndex(cdim, x, y, z, 1)] = "U_0"
               /\ M[ContinuumIndex(cdim, x, y, z, 2)] = "V_0"
               /\ M[ContinuumIndex(cdim, x, y, z, 3)] = "W_0"

C9_Witness ==
    /\ ipc = "done"
    /\ cdim[1] > BLOCK_SIZE
    /\ cdim[2] > BLOCK_SIZE
    /\ M[ContinuumSize(cdim) - 1] = "W_0"

(* C10: the ranges of the block indices 0..NUM_BLOCKS-1 lie inside the     *)
(* domain, every cell lies in the range of exactly one block, no offset    *)
(* of the buffer is written by two blocks and none outside the buffer.     *)
C10_BlocksPartitionDomain ==
    /\ \A b \in Blocks(cdim) :
         /\ 0 <= x_start(cdim, b) /\ x_start(cdim, b) < x_end(cdim, b)
         /\ x_end(cdim, b) <= cdim[1]
         /\ 0 <= y_start(cdim, b) /\ y_start(cdim, b) < y_end(cdim, b)
         /\ y_end(cdim, b) <= cdim[2]
         /\ 0 <= z_start(cdim, b) /\ z_start(cdim, b) < z_end(cdim, b)
         /\ z_end(cdim, b) <= cdim[3]
    /\ \A x \in 0..(cdim[1] - 1) : \A y \in 0..(cdim[2] - 1) :
         \A z \in 0..(cdim[3] - 1) :
           Cardinality({b \in Blocks(cdim) : InRange(cdim, b, x, y, z)}) = 1
    /\ \A idx \in DOMAIN writers : Cardinality(writers[idx]) <= 1
    /\ ~oob

C10_Witness ==
    /\ ipc = "run"
    /\ NUM_BLOCKS(cdim) = 4
    /\ \A t \in Threads : tblock[t] = 1
    /\ writers[0] = {0}
    /\ writers[(BLOCK_SIZE * NM_)] = {1}

-----------------------------------------------------------------------------
StreamOff ==
    /\ sdim = <<0, 0, 0>>
    /\ F = <<>>
    /\ F0 = <<>>
    /\ odd = FALSE
    /\ relax = FALSE
    /\ wcell = <<>>
    /\ wf = <<>>
    /\ spc = "off"

InitOff ==
    /\ cdim = <<0, 0, 0>>
    /\ M = <<>>
    /\ tblock = <<>>
    /\ writers = <<>>
    /\ oob = FALSE
    /\ ipc = "off"

-----------------------------------------------------------------------------
(***************************************************************************)
(* Properties of main()                                                    *)
(***************************************************************************)
Terminated == pc \in {"exited", "crashed"}

InLoopBody == pc \in {StagePc(k) : k \in 1..8} \cup {"export_test", "export"}

ExpectedPass(parity) ==
    << [op |-> "Guo_inlet",     odd |-> parity],
       [op |-> "Guo_outlet",    odd |-> parity],
       [op |-> "CollideStream", odd |-> parity],
       [op |-> "BounceBack",    odd |-> parity] >>

ExpectedIteration ==
    ExpectedPass(FALSE) \o ExpectedPass(TRUE) \o <<[op |-> "Export", odd |-> TRUE]>>

IsPrefix(a, b) == Len(a) <= Len(b) /\ \A k \in 1..Len(a) : a[k] = b[k]

(* C3: within an iteration of the time loop the operations run one after   *)
(* the other in the order Guo inlet, Guo outlet, collide+stream, bounce-   *)
(* back for the even parity, the same four for the odd parity, then the    *)
(* export if it is due; a pass never mixes parities and the export runs    *)
(* only after both passes are complete.                                    *)
C3_StageOrder ==
    /\ IsPrefix(ops, ExpectedIteration)
    /\ \A k \in 1..8 : pc = StagePc(k) => Len(ops) = k - 1
    /\ pc \in {"export_test", "export"} => Len(ops) = 8
    /\ \A k \in 1..Len(ops) : ops[k].op = "Export" => k = 9 /\ save

C3_Witness ==
    /\ pc = "loop_test"
    /\ ops = ExpectedIteration
    /\ i = 4

(* C4 as claimed: a run without arguments whose buffers were allocated     *)
(* ends with exit status 0 after exactly NT passes that alternate even,    *)
(* odd, ... starting with even.                                            *)
C4_ExactlyNTPasses ==
    (Terminated /\ argv = <<>> /\ M_ = "valid" /\ F_ = "valid")
        => /\ exitStatus = 0
           /\ Len(passes) = NT
           /\ \A k \in 1..Len(passes) : passes[k] = (k % 2 = 0)

(* C5 as claimed: with saving enabled a full run exports at every step     *)
(* index in 0..NT-1 that is a multiple of NT/10, and at no other.          *)
C5_ExportEveryTenth ==
    (pc = "exited" /\ M_ = "valid" /\ F_ = "valid" /\ i >= NT /\ save /\ NT >= 10)
        => exports = {s \in 0..(NT - 1) : s % (NT \div 10) = 0}

(* C6 as claimed: no initialisation, boundary enforcement, collision pass  *)
(* or export executes while a buffer pointer is null, and a run whose      *)
(* allocation failed ends with a non-zero exit status.                     *)
C6_NoWorkOnNullBuffer ==
    (M_ = "null" \/ F_ = "null")
        => /\ ran = {}
           /\ Terminated => exitStatus # 0

(* C7 as claimed: the dispatch exits, and without arguments the run        *)
(* completes and returns 0.                                                *)
NothingStarted == M_ = "unset" /\ F_ = "unset" /\ ~built /\ ran = {} /\ passes = <<>>

DispatchExits ==
    /\ (Len(argv) > 0 /\ argv[1] \in {"--version", "--v", "--help", "--info"})
          => /\ pc \in {"start", "exited"}
             /\ NothingStarted
             /\ pc = "exited" => exitStatus = 0
    /\ (Len(argv) > 0 /\ argv[1] = "--convert")
          => /\ pc \in {"start", "exited"}
             /\ NothingStarted
             /\ pc = "exited" => exitStatus # 0 /\ reported # {}

C7_DispatchAndRun ==
    /\ DispatchExits
    /\ (argv = <<>> /\ Terminated) => (exitStatus = 0 /\ i >= NT)

(* C7 amended: the dispatch exits as claimed; without arguments the run    *)
(* goes on to construct the buffers, returns 0 only from the end of the    *)
(* time loop, and otherwise ends with a non-zero status.                   *)
C7_DispatchAmended ==
    /\ DispatchExits
    /\ argv = <<>> => (pc \notin {"start", "construct_macro"} => M_ # "unset")
    /\ (argv = <<>> /\ Terminated)
          => \/ exitStatus = 0 /\ pc = "exited" /\ i >= NT /\ F_ = "valid"
             \/ exitStatus # 0 /\ pc = "exited" /\ F_ = "null"
             \/ exitStatus # 0 /\ pc = "crashed"

C7_Witness ==
    /\ argv = <<"--convert">>
    /\ pc = "exited"
    /\ exitStatus = EXIT_FAILURE

(* C8 as claimed: whenever the time loop executes, TAU > 1/2 and           *)
(* 0 < OMEGA < 2.                                                          *)
C8_RelaxationInRange ==
    (InLoopBody /\ M_ = "valid" /\ F_ = "valid")
        => /\ FracLess(<<1, 2>>, TAU_)
           /\ FracLess(<<0, 1>>, OMEGA_)
           /\ FracLess(OMEGA_, <<2, 1>>)

-----------------------------------------------------------------------------
(* The three specifications *)
Init == MainInit /\ StreamOff /\ InitOff

Next ==
    \/ Dispatch
    \/ ConstructMacro
    \/ ConstructMicro
    \/ Geometry
    \/ InitCont
    \/ InitLat
    \/ LoopTest
    \/ \E k \in 1..Len(LoopBody) : LoopStage(k)
    \/ ExportTest
    \/ Export

Spec == Init /\ [][Next]_vars

InitStream == MainOff /\ StreamInit /\ InitOff

NextStream ==
    \/ \E w \in Workers : WLoad(w)
    \/ \E w \in Workers : WStore(w)
    \/ EndPass

SpecStream == InitStream /\ [][NextStream]_vars

InitInit == MainOff /\ StreamOff /\ ContInit

NextInit ==
    \/ \E t \in Threads : WriteBlock(t)
    \/ InitReturn

SpecInit == InitInit /\ [][NextInit]_vars


=============================================================================
